---- MODULE Spec2Model ----
(***************************************************************************)
(* Model of ocpmodels/datasets/trajectory_lmdb.py: TrajectoryLmdbDataset   *)
(* (__init__, __len__, __getitem__, connect_db, close_db) and              *)
(* data_list_collater.                                                     *)
(*                                                                         *)
(* Python lists are TLA+ sequences; a Python index i is position i + 1.    *)
(* An LMDB file is named by its position (0-based) in the sorted directory *)
(* listing; srcdir[p + 1] is the record count stored under its "length"    *)
(* key, and its records are stored under the keys "0" .. "length-1".       *)
(***************************************************************************)
EXTENDS Integers, Sequences, FiniteSets, TLC

VARIABLES
    srcdir,      \* the *.lmdb files of config["src"], sorted: their declared lengths
    world_size,  \* distutils.get_world_size()
    transform,   \* the transform handed to the constructors ("None" or "SetId")
    ds,          \* rank -> the dataset object that rank has constructed
    ret,         \* outcome of the latest method call on a dataset
    batch        \* outcome of the latest data_list_collater call

vars == <<srcdir, world_size, transform, ds, ret, batch>>

(* Bounds of the model. *)
MaxDbs == 2
MaxLength == 2
MaxWorld == 2
MaxBatch == 3
MaxEdges == 2

-----------------------------------------------------------------------------
(* Python built-ins and library functions used by the module. *)

\* str(n) for an integer n, as used by the f-strings.
Digit(d) ==
    CASE d = 0 -> "0" [] d = 1 -> "1" [] d = 2 -> "2" [] d = 3 -> "3"
      [] d = 4 -> "4" [] d = 5 -> "5" [] d = 6 -> "6" [] d = 7 -> "7"
      [] d = 8 -> "8" [] d = 9 -> "9"

RECURSIVE Str(_)
Str(n) ==
    IF n < 0 THEN "-" \o Str(-n)
    ELSE IF n < 10 THEN Digit(n)
    ELSE Str(n \div 10) \o Digit(n % 10)

\* len(range(start, stop, step)) for step > 0.
RangeLen(start, stop, step) ==
    IF stop <= start THEN 0 ELSE (stop - start + step - 1) \div step

\* list(range(start, stop, step)) for step > 0.
Range(start, stop, step) ==
    [i \in 1..RangeLen(start, stop, step) |-> start + (i - 1) * step]

\* seq[start:stop:step] for 0 <= start, step > 0 (stop is clipped to len(seq)).
Slice(seq, start, stop, step) ==
    LET hi == IF stop < Len(seq) THEN stop ELSE Len(seq)
    IN  [i \in 1..RangeLen(start, hi, step) |-> seq[start + (i - 1) * step + 1]]

\* np.cumsum(seq).tolist()
RECURSIVE CumSumBad(_)
CumSumBad(seq) ==
    IF Len(seq) = 0 THEN <<>>
    ELSE Append(CumSumBad(SubSeq(seq, 1, Len(seq) - 1)), seq[Len(seq)])

RECURSIVE CumSum(_)
CumSum(seq) ==
    IF Len(seq) = 0 THEN <<>>
    ELSE LET init == CumSum(SubSeq(seq, 1, Len(seq) - 1))
         IN  Append(init, (IF Len(init) = 0 THEN 0 ELSE init[Len(init)])
                          + seq[Len(seq)])

\* sum(seq)
RECURSIVE Sum(_)
Sum(seq) == IF Len(seq) = 0 THEN 0 ELSE seq[1] + Sum(Tail(seq))

\* bisect.bisect(a, x) = bisect_right: the binary search of the standard library.
RECURSIVE BisectLoop(_, _, _, _)
BisectLoop(a, x, lo, hi) ==
    IF lo < hi
    THEN LET mid == (lo + hi) \div 2
         IN  IF x < a[mid + 1] THEN BisectLoop(a, x, lo, mid)
                               ELSE BisectLoop(a, x, mid + 1, hi)
    ELSE lo

RECURSIVE BisectLeftLoop(_, _, _, _)
BisectLeftLoop(a, x, lo, hi) ==
    IF lo < hi
    THEN LET mid == (lo + hi) \div 2
         IN  IF a[mid + 1] < x THEN BisectLeftLoop(a, x, mid + 1, hi)
                               ELSE BisectLeftLoop(a, x, lo, mid)
    ELSE lo

BisectLeft(a, x) == BisectLeftLoop(a, x, 0, Len(a))

Bisect(a, x) == BisectLoop(a, x, 0, Len(a))

-----------------------------------------------------------------------------
(* The LMDB files: the external store behind env.begin().get(key). *)

\* The record pickled under key k of file path; it carries an id of its own.
StoredRecord(path, k) == [src |-> <<path, k>>, id |-> "stored"]

\* env.begin().get(key) for a record key: <<bytes>>, or <<>> for None.
StoreGet(path, key) ==
    LET hits == {k \in 0..(srcdir[path + 1] - 1) : Str(k) = key}
    IN  IF hits = {} THEN <<>> ELSE <<StoredRecord(path, CHOOSE k \in hits : TRUE)>>

\* pickle.loads(env.begin().get("length".encode("ascii")))
StoreLength(path) == srcdir[path + 1]

\* self.transform(data_object): the modelled transform rewrites the id field.
ApplyTransform(t, data_object) ==
    IF t = "SetId" THEN [data_object EXCEPT !.id = "transformed"] ELSE data_object

-----------------------------------------------------------------------------
(* TrajectoryLmdbDataset.__init__ *)

\* db_paths = sorted(srcdir.glob("*.lmdb"))
DbPaths == [i \in 1..Len(srcdir) |-> i - 1]

NumFullDbsAll(n, W) == n

NumFullDbs(n, W) == n - (n % W)

FullDbPathsFromZero(db_paths, rank, W) ==
    Slice(db_paths, 0, NumFullDbs(Len(db_paths), W), W)

FullDbPaths(db_paths, rank, W) ==
    Slice(db_paths, rank, NumFullDbs(Len(db_paths), W), W)

SharedDbPaths(db_paths, W) ==
    Slice(db_paths, NumFullDbs(Len(db_paths), W), Len(db_paths), 1)

\* connect_db: a read-only environment on the file, open.
connect_db(lmdb_path) == [path |-> lmdb_path, open |-> TRUE]

FullKeys(length) == Range(0, length, 1)

UntrimmedLength(length, W) == length

TrimmedLength(length, W) == length - (length % W)

SharedKeysFromZero(length, rank, W) == Range(0, TrimmedLength(length, W), W)

SharedKeys(length, rank, W) == Range(rank, TrimmedLength(length, W), W)

\* The object __init__ leaves behind for rank `rank`.
NewDataset(rank, W, t) ==
    LET db_paths == DbPaths
        full_db_paths == FullDbPaths(db_paths, rank, W)
        shared_db_paths == SharedDbPaths(db_paths, W)
        paths == full_db_paths \o shared_db_paths
        keys == [i \in 1..Len(full_db_paths) |->
                    FullKeys(StoreLength(full_db_paths[i]))]
                \o [i \in 1..Len(shared_db_paths) |->
                    SharedKeys(StoreLength(shared_db_paths[i]), rank, W)]
        keylens == [i \in 1..Len(keys) |-> Len(keys[i])]
    IN  [db_paths |-> paths,
         envs |-> [i \in 1..Len(paths) |-> connect_db(paths[i])],
         _keys |-> keys,
         _keylens |-> keylens,
         _keylen_cumulative |-> CumSum(keylens),
         num_samples |-> Sum(keylens),
         transform |-> t]

-----------------------------------------------------------------------------
(* TrajectoryLmdbDataset.__getitem__ *)

\* f"{db_idx}_{el_idx}"
RecordId(db_idx, el_idx) == Str(db_idx) \o "_" \o Str(el_idx)

\* Lines 88-93, mutated: the id is stamped before the transform runs.
ReturnDataStampFirst(d, db_idx, el_idx, loaded) ==
    ApplyTransform(d.transform, [loaded EXCEPT !.id = RecordId(db_idx, el_idx)])

\* The transform, then the id stamp, then the return.
ReturnData(d, db_idx, el_idx, loaded) ==
    [ApplyTransform(d.transform, loaded) EXCEPT !.id = RecordId(db_idx, el_idx)]

Raise(exc, db_idx, el_idx) ==
    [outcome |-> exc, db_idx |-> db_idx, el_idx |-> el_idx,
     fetched |-> <<>>, value |-> <<>>]

\* el_idx as lines 78-80 compute it.
ElIdx(d, idx, db_idx) ==
    IF db_idx # 0 THEN idx - d._keylen_cumulative[db_idx] ELSE idx

\* Lines 84-93, once db_idx and el_idx are known. `corrupt` says whether the
\* bytes fetched fail to unpickle.
Fetch(d, db_idx, el_idx, corrupt) ==
    IF db_idx >= Len(d.envs) THEN Raise("IndexError", db_idx, el_idx)
    ELSE IF ~d.envs[db_idx + 1].open THEN Raise("lmdb.Error", db_idx, el_idx)
    ELSE LET keys == d._keys[db_idx + 1]
             n == Len(keys)
         IN  IF el_idx >= n \/ el_idx < -n THEN Raise("IndexError", db_idx, el_idx)
             ELSE LET key == IF el_idx >= 0 THEN keys[el_idx + 1]
                                            ELSE keys[n + el_idx + 1]
                      path == d.envs[db_idx + 1].path
                      got == StoreGet(path, Str(key))
                      at == <<[path |-> path, key |-> Str(key)]>>
                  IN  IF got = <<>>
                      THEN [Raise("TypeError", db_idx, el_idx) EXCEPT !.fetched = at]
                      ELSE IF corrupt
                      THEN [Raise("UnpicklingError", db_idx, el_idx)
                                EXCEPT !.fetched = at]
                      ELSE [outcome |-> "ok", db_idx |-> db_idx, el_idx |-> el_idx,
                            fetched |-> at,
                            value |-> <<ReturnData(d, db_idx, el_idx, got[1])>>]

\* __getitem__ without the assertion on el_idx.
GetItemNoAssert(d, idx, corrupt) ==
    LET db_idx == Bisect(d._keylen_cumulative, idx)
    IN  Fetch(d, db_idx, ElIdx(d, idx, db_idx), corrupt)

\* __getitem__(idx) on dataset object d.
GetItem(d, idx, corrupt) ==
    LET db_idx == Bisect(d._keylen_cumulative, idx)
        el_idx == ElIdx(d, idx, db_idx)
    IN  IF ~(el_idx >= 0) THEN Raise("AssertionError", db_idx, el_idx)
        ELSE Fetch(d, db_idx, el_idx, corrupt)

-----------------------------------------------------------------------------
(* TrajectoryLmdbDataset.close_db *)

\* self.env.close(): __init__ sets the attribute envs and never an attribute env.
close_db(d) ==
    IF "env" \in DOMAIN d
    THEN [outcome |-> "ok", self |-> [d EXCEPT !["env"].open = FALSE]]
    ELSE [outcome |-> "AttributeError", self |-> d]

-----------------------------------------------------------------------------
(* data_list_collater *)

\* A Data object whose edge_index is a 2 x e tensor.
WithEdges(e) == [impl |-> TRUE, edge_shape |-> <<2, e>>]

\* A Data object whose edge_index raises NotImplementedError.
NoEdges == [impl |-> FALSE, edge_shape |-> <<>>]

DataObjects == {NoEdges} \cup {WithEdges(e) : e \in 0..MaxEdges}

\* Batch.from_data_list(data_list): the merged batch (no attribute `neighbors`).
BatchFromDataList(data_list) == [merged |-> data_list]

\* edge_index[1, :]: the shape of row 1 of a tensor of the given shape.
SelectRow(shape) == Tail(shape)

\* data.edge_index[1, :].shape[0]
NIndexShape0(data) == Head(SelectRow(data.edge_shape))

\* The for loop of lines 117-119 from position i on: the list built, and whether
\* NotImplementedError ended it.
RECURSIVE NeighborLoop(_, _, _)
NeighborLoop(data_list, i, n_neighbors) ==
    IF i > Len(data_list) THEN [raised |-> FALSE, n_neighbors |-> n_neighbors]
    ELSE IF ~data_list[i].impl THEN [raised |-> TRUE, n_neighbors |-> n_neighbors]
    ELSE NeighborLoop(data_list, i + 1,
                      Append(n_neighbors, NIndexShape0(data_list[i])))

\* The collater with batch.neighbors assigned inside the try whatever the loop did.
CollaterPartial(data_list, otf_graph) ==
    LET b == BatchFromDataList(data_list)
        loop == NeighborLoop(data_list, 1, <<>>)
    IN  IF otf_graph THEN [returned |-> b, printed |-> FALSE]
        ELSE [returned |-> [merged |-> b.merged, neighbors |-> loop.n_neighbors],
              printed |-> loop.raised]

data_list_collater(data_list, otf_graph) ==
    LET b == BatchFromDataList(data_list)
        loop == NeighborLoop(data_list, 1, <<>>)
    IN  IF otf_graph THEN [returned |-> b, printed |-> FALSE]
        ELSE IF loop.raised THEN [returned |-> b, printed |-> TRUE]
        ELSE [returned |-> [merged |-> b.merged, neighbors |-> loop.n_neighbors],
              printed |-> FALSE]

-----------------------------------------------------------------------------
(* The state machine of the dataset: each rank constructs its own dataset  *)
(* over the same directory and then calls its methods in any order.        *)

Ranks == 0..(world_size - 1)

NoCall == [op |-> "none"]

Directories ==
    UNION {[1..n -> 0..MaxLength] : n \in 0..MaxDbs}

Init ==
    /\ \/ /\ world_size \in 1..MaxWorld
          /\ srcdir \in Directories
       \/ /\ world_size = 1
          /\ srcdir = <<5, 3>>
       \/ /\ world_size = 3
          /\ srcdir \in {<<10>>, <<1, 0, 2, 10>>, <<1, 1, 0, 2, 1, 0, 4>>}
       \/ /\ world_size = 2
          /\ srcdir \in {<<5>>, <<2, 0, 1, 3, 7>>}
    /\ transform \in {"None", "SetId"}
    /\ ds = <<>>
    /\ ret = NoCall
    /\ batch = NoCall

\* TrajectoryLmdbDataset(config, transform) in the process of rank r.
Construct(r) ==
    /\ r \notin DOMAIN ds
    /\ IF Len(DbPaths) > 0
       THEN /\ ds' = [x \in DOMAIN ds \cup {r} |->
                         IF x = r THEN NewDataset(r, world_size, transform)
                                  ELSE ds[x]]
            /\ ret' = [op |-> "__init__", rank |-> r, outcome |-> "ok"]
       ELSE /\ ds' = ds
            /\ ret' = [op |-> "__init__", rank |-> r, outcome |-> "AssertionError"]
    /\ UNCHANGED <<srcdir, world_size, transform, batch>>

\* len(dataset) in the process of rank r.
LenCall(r) ==
    /\ r \in DOMAIN ds
    /\ ret' = [op |-> "__len__", rank |-> r, outcome |-> "ok",
               value |-> ds[r].num_samples]
    /\ UNCHANGED <<srcdir, world_size, transform, ds, batch>>

\* dataset[idx] in the process of rank r.
GetItemCall(r, idx, corrupt) ==
    /\ r \in DOMAIN ds
    /\ ret' = [op |-> "__getitem__", rank |-> r, idx |-> idx, corrupt |-> corrupt,
               result |-> GetItem(ds[r], idx, corrupt)]
    /\ UNCHANGED <<srcdir, world_size, transform, ds, batch>>

\* dataset.close_db() in the process of rank r.
CloseDbCall(r) ==
    /\ r \in DOMAIN ds
    /\ LET res == close_db(ds[r])
       IN  /\ ds' = [ds EXCEPT ![r] = res.self]
           /\ ret' = [op |-> "close_db", rank |-> r, outcome |-> res.outcome]
    /\ UNCHANGED <<srcdir, world_size, transform, batch>>

Next ==
    \/ \E r \in Ranks : Construct(r)
    \/ \E r \in Ranks : LenCall(r)
    \/ \E r \in DOMAIN ds, corrupt \in BOOLEAN :
          \E idx \in (-2)..(ds[r].num_samples + 1) : GetItemCall(r, idx, corrupt)
    \/ \E r \in Ranks : CloseDbCall(r)

Spec == Init /\ [][Next]_vars

-----------------------------------------------------------------------------
(* The state machine of the collater: any non-empty list of at most        *)
(* MaxBatch data objects, with either value of otf_graph.                  *)

RECURSIVE DataLists(_)
DataLists(n) ==
    IF n = 0 THEN {<<>>}
    ELSE LET shorter == DataLists(n - 1)
         IN  shorter \cup {Append(l, d) : l \in {s \in shorter : Len(s) = n - 1},
                                          d \in DataObjects}

InitCollate ==
    /\ world_size = 1
    /\ srcdir = <<>>
    /\ transform = "None"
    /\ ds = <<>>
    /\ ret = NoCall
    /\ batch = NoCall

Collate(data_list, otf_graph) ==
    /\ batch' = [op |-> "data_list_collater", data_list |-> data_list,
                 otf_graph |-> otf_graph,
                 result |-> data_list_collater(data_list, otf_graph)]
    /\ UNCHANGED <<srcdir, world_size, transform, ds, ret>>

NextCollate ==
    \E data_list \in DataLists(MaxBatch) \ {<<>>}, otf_graph \in BOOLEAN :
        Collate(data_list, otf_graph)

SpecCollate == InitCollate /\ [][NextCollate]_vars

-----------------------------------------------------------------------------
(* Vocabulary of the properties, stated from the directory and the world   *)
(* size alone, independently of the operators above.                       *)

NumDbs == Len(srcdir)

\* Number of files that are split evenly among the ranks.
NumFull == NumDbs - (NumDbs % world_size)

\* Declared length of the file at sorted position p.
Declared(p) == srcdir[p + 1]

\* Declared length of a shared file rounded down to a multiple of world_size.
Trimmed(p) == Declared(p) - (Declared(p) % world_size)

AllConstructed == NumDbs > 0 /\ DOMAIN ds = Ranks

SeqSet(s) == {s[i] : i \in 1..Len(s)}

StrictlyIncreasing(s) == \A i \in 1..(Len(s) - 1) : s[i] < s[i + 1]

\* Number of exclusive shards of the dataset d (the shared ones come last).
NumExclusive(d) == Len(d.db_paths) - (NumDbs - NumFull)

Exclusive(d) == SubSeq(d.db_paths, 1, NumExclusive(d))

\* Owned-key count of the shards before index i (0-based) of dataset d.
RECURSIVE Before(_, _)
Before(d, i) == IF i = 0 THEN 0 ELSE Before(d, i - 1) + Len(d._keys[i])

\* The pairs (shard_index, local_offset) assigned to dataset d.
Assigned(d) ==
    UNION {{<<s, o>> : o \in 0..(Len(d._keys[s + 1]) - 1)} :
              s \in 0..(Len(d._keys) - 1)}

\* What get(idx) of dataset d resolves to, read from its result.
Resolved(d, idx) ==
    LET res == GetItem(d, idx, FALSE) IN <<res.db_idx, res.el_idx>>

\* The record (file, key) that get(idx) of dataset d returns.
Visited(d, idx) ==
    LET res == GetItem(d, idx, FALSE)
    IN  IF res.outcome = "ok" THEN {res.value[1].src} ELSE {}

\* Number of (rank, idx) with idx in 0..length()-1 whose get returns record rec.
VisitCount(rec) ==
    Cardinality({v \in UNION {{<<r, idx>> : idx \in 0..(ds[r].num_samples - 1)} :
                                 r \in DOMAIN ds} :
                    rec \in Visited(ds[v[1]], v[2])})

-----------------------------------------------------------------------------
(* Partition of the files and of their keys among the ranks. *)

\* C1: the exclusive shard lists of the ranks are pairwise disjoint, their union
\* is the sorted positions [0, NumFull), position p belongs to rank p mod
\* world_size, and the owning rank's keys for it are 0..declared_length-1 in
\* order, without gap or duplicate.
C1_ExclusivePartition ==
    /\ \A r \in DOMAIN ds :
          LET d == ds[r] IN
          /\ StrictlyIncreasing(Exclusive(d))
          /\ SeqSet(Exclusive(d)) = {p \in 0..(NumFull - 1) : p % world_size = r}
          /\ \A i \in 1..NumExclusive(d) :
                d._keys[i] = [k \in 1..Declared(d.db_paths[i]) |-> k - 1]
    /\ \A r, q \in DOMAIN ds :
          r # q => SeqSet(Exclusive(ds[r])) \cap SeqSet(Exclusive(ds[q])) = {}
    /\ AllConstructed =>
          /\ UNION {SeqSet(Exclusive(ds[r])) : r \in Ranks} = 0..(NumFull - 1)
          /\ \A p \in 0..(NumFull - 1) :
                Cardinality({r \in Ranks : p \in SeqSet(Exclusive(ds[r]))}) = 1

\* Two ranks, each with two exclusive shards of different lengths, all constructed.
C1_Witness ==
    /\ AllConstructed
    /\ world_size = 2
    /\ srcdir = <<2, 0, 1, 3, 7>>
    /\ Exclusive(ds[0]) = <<0, 2>>
    /\ Exclusive(ds[1]) = <<1, 3>>

\* C2 as claimed: with every rank constructed and iterating get(0..length()-1),
\* every record (shard, key), key < declared_length, is visited exactly once.
C2_EveryRecordOnce ==
    AllConstructed =>
        \A p \in 0..(NumDbs - 1) : \A k \in 0..(Declared(p) - 1) :
            VisitCount(<<p, k>>) = 1

\* C2 amended: every record of a file at a position below NumFull, and every
\* record with key below the trimmed length of a shared file, is visited exactly
\* once; the records of a shared file at keys in [trimmed, declared) are visited
\* by no rank.
C2_EveryKeptRecordOnce ==
    AllConstructed =>
        \A p \in 0..(NumDbs - 1) : \A k \in 0..(Declared(p) - 1) :
            VisitCount(<<p, k>>) = IF p < NumFull \/ k < Trimmed(p) THEN 1 ELSE 0

\* Every rank constructed over exclusive files and a shared file with a dropped tail.
C2_Witness ==
    /\ AllConstructed
    /\ world_size = 2
    /\ srcdir = <<2, 0, 1, 3, 7>>
    /\ VisitCount(<<4, 5>>) = 1
    /\ VisitCount(<<4, 6>>) = 0
    /\ VisitCount(<<3, 2>>) = 1

\* C3: for a shared shard of declared length L, with T = L - (L mod world_size),
\* rank r owns exactly the increasing keys r, r + W, ... below T: T / W keys per
\* rank, every key below T owned by exactly one rank, keys in [T, L) by none.
C3_SharedStride ==
    /\ \A r \in DOMAIN ds :
          LET d == ds[r] IN
          \A i \in (NumExclusive(d) + 1)..Len(d.db_paths) :
             LET p == d.db_paths[i]
                 keys == d._keys[i]
             IN  /\ p >= NumFull
                 /\ Len(keys) * world_size = Trimmed(p)
                 /\ \A j \in 1..Len(keys) : keys[j] = r + (j - 1) * world_size
                 /\ \A j \in 1..Len(keys) : keys[j] < Trimmed(p)
    /\ AllConstructed =>
          \A p \in NumFull..(NumDbs - 1) : \A k \in 0..(Declared(p) - 1) :
             LET owners == {r \in Ranks :
                               \E i \in (NumExclusive(ds[r]) + 1)..Len(ds[r].db_paths) :
                                  /\ ds[r].db_paths[i] = p
                                  /\ k \in SeqSet(ds[r]._keys[i])}
             IN  Cardinality(owners) = IF k < Trimmed(p) THEN 1 ELSE 0

\* Two ranks sharing a file of 7 records: three keys each, key 6 dropped.
C3_Witness ==
    /\ AllConstructed
    /\ world_size = 2
    /\ srcdir = <<2, 0, 1, 3, 7>>
    /\ ds[0]._keys[3] = <<0, 2, 4>>
    /\ ds[1]._keys[3] = <<1, 3, 5>>

\* The keys rank r owns of the shared file at position p, as a set.
OwnedOfShared(r, p) ==
    UNION {SeqSet(ds[r]._keys[i]) :
              i \in {j \in (NumExclusive(ds[r]) + 1)..Len(ds[r].db_paths) :
                        ds[r].db_paths[j] = p}}

Fairness(own0, own1, own2) ==
    (world_size = 3 /\ AllConstructed) =>
        \A p \in NumFull..(NumDbs - 1) :
            Declared(p) = 10 =>
                /\ OwnedOfShared(0, p) = own0
                /\ OwnedOfShared(1, p) = own1
                /\ OwnedOfShared(2, p) = own2

\* C4 as claimed: world_size 3, shared shard of declared length 10: rank 0 owns
\* {0,3,6,9}, rank 1 owns {1,4,7}, rank 2 owns {2,5,8}.
C4_FairnessAsClaimed == Fairness({0, 3, 6, 9}, {1, 4, 7}, {2, 5, 8})

\* C4 amended: rank 0 owns {0,3,6}, rank 1 owns {1,4,7}, rank 2 owns {2,5,8};
\* key 9 is owned by no rank.
C4_Fairness == Fairness({0, 3, 6}, {1, 4, 7}, {2, 5, 8})

C4_Witness ==
    /\ AllConstructed
    /\ world_size = 3
    /\ srcdir = <<10>>
    /\ ds[0]._keys = <<(<<0, 3, 6>>)>>

-----------------------------------------------------------------------------
(* Resolution of a global index, and the record returned. *)

\* The shard index that holds global index idx: the number of shards whose
\* cumulative owned-key count does not exceed idx.
ShardOf(d, idx) == Cardinality({i \in 1..Len(d._keys) : Before(d, i) <= idx})

OffsetOf(d, idx) == idx - Before(d, ShardOf(d, idx))

\* C5: for a dataset of total length N, idx |-> (shard_index, local_offset) is a
\* bijection from [0, N) onto the pairs with 0 <= local_offset <
\* len(owned_keys[shard_index]); shard_index is the first position whose
\* cumulative length exceeds idx, never a shard with zero owned keys; increasing
\* idx walks the shards in construction order: the exclusive ones first, then
\* the shared ones, each in sorted-path order.
C5_ResolveBijection ==
    \A r \in DOMAIN ds :
        LET d == ds[r]
            N == d.num_samples
        IN  /\ \A idx \in 0..(N - 1) :
                  /\ GetItem(d, idx, FALSE).outcome = "ok"
                  /\ Resolved(d, idx) = <<ShardOf(d, idx), OffsetOf(d, idx)>>
                  /\ Resolved(d, idx) \in Assigned(d)
                  /\ Len(d._keys[Resolved(d, idx)[1] + 1]) > 0
            /\ \A i, j \in 0..(N - 1) :
                  i < j =>
                     \/ Resolved(d, i)[1] < Resolved(d, j)[1]
                     \/ /\ Resolved(d, i)[1] = Resolved(d, j)[1]
                        /\ Resolved(d, i)[2] < Resolved(d, j)[2]
            /\ {Resolved(d, idx) : idx \in 0..(N - 1)} = Assigned(d)
            /\ Cardinality(Assigned(d)) = N
            /\ StrictlyIncreasing(Exclusive(d))
            /\ \A p \in SeqSet(Exclusive(d)) : p < NumFull
            /\ SubSeq(d.db_paths, NumExclusive(d) + 1, Len(d.db_paths))
                  = [i \in 1..(NumDbs - NumFull) |-> NumFull + i - 1]

\* A successful get that lands after an empty shard in a dataset of several shards.
C5_Witness ==
    /\ ret.op = "__getitem__"
    /\ ret.result.outcome = "ok"
    /\ LET d == ds[ret.rank]
       IN  /\ \E i \in 1..Len(d._keylens) :
                 d._keylens[i] = 0 /\ i < ret.result.db_idx + 1
           /\ ret.result.el_idx > 0
           /\ ret.idx = d._keylen_cumulative[ret.result.db_idx] + ret.result.el_idx

\* C6: for a dataset of total length N, get(idx) with idx < 0 or idx >= N ends in
\* an error, returns no record and fetches no store key; get(0) and get(N-1)
\* resolve to an assigned location when N > 0 (and return a record unless the
\* stored bytes are corrupt), also when the first or last shard has no keys.
C6_Boundary ==
    ret.op = "__getitem__" =>
        LET d == ds[ret.rank]
            N == d.num_samples
            res == ret.result
        IN  /\ (ret.idx < 0 \/ ret.idx >= N) =>
                  /\ res.outcome \in {"AssertionError", "IndexError"}
                  /\ res.value = <<>>
                  /\ res.fetched = <<>>
            /\ (N > 0 /\ ret.idx \in {0, N - 1}) =>
                  /\ <<res.db_idx, res.el_idx>> \in Assigned(d)
                  /\ res.fetched # <<>>
                  /\ res.outcome = IF ret.corrupt THEN "UnpicklingError" ELSE "ok"
                  /\ ~ret.corrupt => Len(res.value) = 1

\* get(-1) on a non-empty dataset whose first shard has no keys: an error, no record.
C6_Witness ==
    /\ ret.op = "__getitem__"
    /\ ret.idx = -1
    /\ ds[ret.rank].num_samples > 0
    /\ ds[ret.rank]._keylens[1] = 0
    /\ ret.result.outcome = "AssertionError"
    /\ ret.result.value = <<>>

\* C7: the record get(idx) returns has id "{shard_index}_{local_offset}", the
\* offset being the position in the owned-key sequence and not the store key; it
\* replaces the stored id and any id the transform set, the transform having
\* been applied once. With two fully owned shards of lengths 5 and 3, get(6)
\* resolves to shard 1, offset 1 and returns id "1_1".
C7_RecordId ==
    (ret.op = "__getitem__" /\ ret.result.outcome = "ok") =>
        LET d == ds[ret.rank]
            res == ret.result
            rec == res.value[1]
            s == ShardOf(d, ret.idx)
            o == OffsetOf(d, ret.idx)
        IN  /\ res.db_idx = s /\ res.el_idx = o
            /\ rec.id = Str(s) \o "_" \o Str(o)
            /\ rec.id \notin {"stored", "transformed"}
            /\ rec.src = <<d.db_paths[s + 1], d._keys[s + 1][o + 1]>>
            /\ (world_size = 1 /\ srcdir = <<5, 3>> /\ ret.idx = 6) =>
                  s = 1 /\ o = 1 /\ rec.id = "1_1"
            /\ (world_size = 3 /\ srcdir = <<10>> /\ ret.rank = 1 /\ ret.idx = 2) =>
                  rec.src = <<0, 7>> /\ rec.id = "0_2"

\* get(6) over shards of lengths 5 and 3, with a transform that sets an id.
C7_Witness ==
    /\ ret.op = "__getitem__"
    /\ ret.result.outcome = "ok"
    /\ world_size = 1 /\ srcdir = <<5, 3>> /\ ret.idx = 6
    /\ ds[ret.rank].transform = "SetId"
    /\ ret.result.value[1].id = "1_1"

\* C8 as claimed: close_db() completes without error and leaves every store
\* handle opened at construction closed.
C8_CloseReleasesAll ==
    ret.op = "close_db" =>
        /\ ret.outcome = "ok"
        /\ \A i \in 1..Len(ds[ret.rank].envs) : ~ds[ret.rank].envs[i].open

\* C10: get never changes the index state. The owned-key sequences, the shard
\* order and the cumulative lengths stay as constructed: cumulative_lengths is
\* non-decreasing, its entry i is the owned-key count of shards 0..i, length()
\* is its last entry, and a get resolves by the index as it stands, so the same
\* idx always resolves to the same location.
IndexState(d) == <<d.db_paths, d._keys, d._keylens, d._keylen_cumulative, d.num_samples>>

IndexInv ==
    /\ \A r \in DOMAIN ds :
          LET d == ds[r] IN
          /\ Len(d._keylen_cumulative) = Len(d._keys)
          /\ Len(d._keylens) = Len(d._keys)
          /\ Len(d.db_paths) = Len(d._keys)
          /\ d.db_paths = Exclusive(d) \o [i \in 1..(NumDbs - NumFull) |-> NumFull + i - 1]
          /\ \A i \in 1..Len(d._keys) :
                /\ d._keylens[i] = Len(d._keys[i])
                /\ d._keylen_cumulative[i] = Before(d, i)
                /\ i > 1 => d._keylen_cumulative[i - 1] <= d._keylen_cumulative[i]
          /\ d.num_samples = d._keylen_cumulative[Len(d._keylen_cumulative)]
    /\ (ret.op = "__getitem__" /\ ret.idx \in 0..(ds[ret.rank].num_samples - 1)) =>
          /\ ret.result.db_idx = ShardOf(ds[ret.rank], ret.idx)
          /\ ret.result.el_idx = OffsetOf(ds[ret.rank], ret.idx)

GetLeavesIndex ==
    ret'.op = "__getitem__" =>
        /\ DOMAIN ds' = DOMAIN ds
        /\ \A r \in DOMAIN ds : IndexState(ds'[r]) = IndexState(ds[r])

C10_IndexUnchanged == []IndexInv /\ [][GetLeavesIndex]_vars

\* A get that failed on a corrupt record, in a dataset of several shards.
C10_Witness ==
    /\ ret.op = "__getitem__"
    /\ ret.result.outcome = "UnpicklingError"
    /\ Len(ds[ret.rank]._keylen_cumulative) > 1
    /\ ret.idx > 0

-----------------------------------------------------------------------------
(* The collater. *)

\* C9: data_list_collater returns the merged batch, and its neighbor counts are
\* all or nothing: none when otf_graph is true; when otf_graph is false and every
\* record has an edge index, one count per record, in order, the number of
\* entries of the record's second edge row; when otf_graph is false and the edge
\* index is unimplemented on some record, the batch is returned without any
\* neighbor counts.
C9_NeighborsAllOrNothing ==
    batch.op = "data_list_collater" =>
        LET b == batch.result.returned
            l == batch.data_list
        IN  /\ b.merged = l
            /\ batch.otf_graph => "neighbors" \notin DOMAIN b
            /\ (~batch.otf_graph /\ \A i \in 1..Len(l) : l[i].impl) =>
                  /\ "neighbors" \in DOMAIN b
                  /\ Len(b.neighbors) = Len(l)
                  /\ \A i \in 1..Len(l) : b.neighbors[i] = l[i].edge_shape[2]
            /\ (~batch.otf_graph /\ \E i \in 1..Len(l) : ~l[i].impl) =>
                  "neighbors" \notin DOMAIN b

\* The edge index is unimplemented on the last of three records only.
C9_Witness ==
    /\ batch.op = "data_list_collater"
    /\ ~batch.otf_graph
    /\ Len(batch.data_list) = 3
    /\ batch.data_list[1].impl /\ batch.data_list[2].impl /\ ~batch.data_list[3].impl
    /\ batch.data_list[1].edge_shape = <<2, 1>>
    /\ "neighbors" \notin DOMAIN batch.result.returned

====
